---- MODULE Spec2Model ----
(***************************************************************************)
(* A model of gto_scorecard_app.py: the run of main() over two uploaded    *)
(* tables, from the name reconciliation (normalize_name, difflib's         *)
(* get_close_matches, pandas' merge) to the five ownership stages and the  *)
(* final scorecard.                                                        *)
(*                                                                         *)
(* Strings are sequences of code points.  Numbers are exact rationals      *)
(* <<n, d>> in lowest terms with d > 0; <<0, 0>> is NaN and <<1, 0>>,      *)
(* <<-1, 0>> are the infinities, with the IEEE rules pandas follows.       *)
(***************************************************************************)
EXTENDS Integers, Sequences, FiniteSets, TLC

(* ------------------------------ bounds -------------------------------- *)

\* The longest table (rows) drawn for an uploaded file.
MaxRows == 3

(* ------------------------------ strings ------------------------------- *)

IsUpper(c) == c >= 65 /\ c <= 90
IsLower(c) == c >= 97 /\ c <= 122
IsAlpha(c) == IsUpper(c) \/ IsLower(c)
IsDigit(c) == c >= 48 /\ c <= 57
\* str.isspace / the regex class \s, on the code points below 128
IsSpace(c) == c \in {9, 10, 11, 12, 13, 28, 29, 30, 31, 32}
\* the regex class \w, on the code points below 128
IsWord(c) == IsAlpha(c) \/ IsDigit(c) \/ c = 95

LowerCh(c) == IF IsUpper(c) THEN c + 32 ELSE c
\* str.lower()
Lower(s) == [i \in 1..Len(s) |-> LowerCh(s[i])]

\* Python's order on strings: code point by code point, a prefix first
RECURSIVE StrLess(_, _)
StrLess(a, b) ==
    IF b = <<>> THEN FALSE
    ELSE IF a = <<>> THEN TRUE
    ELSE IF Head(a) # Head(b) THEN Head(a) < Head(b)
    ELSE StrLess(Tail(a), Tail(b))

\* sub in s
Contains(s, sub) ==
    \E i \in 1..(Len(s) - Len(sub) + 1) : SubSeq(s, i, i + Len(sub) - 1) = sub

\* str.strip()
RECURSIVE LStrip(_)
LStrip(s) == IF s # <<>> /\ IsSpace(Head(s)) THEN LStrip(Tail(s)) ELSE s
RECURSIVE RStrip(_)
RStrip(s) ==
    IF s # <<>> /\ IsSpace(s[Len(s)]) THEN RStrip(SubSeq(s, 1, Len(s) - 1)) ELSE s
Strip(s) == RStrip(LStrip(s))

\* str.split(): the maximal runs of non-whitespace
RECURSIVE SplitFrom(_, _, _)
SplitFrom(s, i, cur) ==
    IF i > Len(s) THEN (IF cur = <<>> THEN <<>> ELSE <<cur>>)
    ELSE IF IsSpace(s[i])
         THEN (IF cur = <<>> THEN <<>> ELSE <<cur>>) \o SplitFrom(s, i + 1, <<>>)
         ELSE SplitFrom(s, i + 1, Append(cur, s[i]))
Split(s) == SplitFrom(s, 1, <<>>)

\* list.sort() on strings (stable; equal strings are interchangeable)
RECURSIVE InsertSorted(_, _)
InsertSorted(t, sorted) ==
    IF sorted = <<>> THEN <<t>>
    ELSE IF StrLess(t, Head(sorted)) THEN <<t>> \o sorted
    ELSE <<Head(sorted)>> \o InsertSorted(t, Tail(sorted))
\* the tokens left in the order split() gave them
SortTokensUnsorted(tokens) == tokens
RECURSIVE SortTokens(_)
SortTokens(tokens) ==
    IF tokens = <<>> THEN <<>>
    ELSE InsertSorted(tokens[Len(tokens)], SortTokens(SubSeq(tokens, 1, Len(tokens) - 1)))

\* " ".join(tokens)
RECURSIVE Join(_)
Join(tokens) ==
    IF tokens = <<>> THEN <<>>
    ELSE IF Len(tokens) = 1 THEN tokens[1]
    ELSE tokens[1] \o <<32>> \o Join(Tail(tokens))   \* " "

\* re.sub(r"[^a-zA-Z\s]", "", s)
StripNonAlpha(s) == SelectSeq(s, LAMBDA c : IsAlpha(c) \/ IsSpace(c))

\* normalize_name on the string of a value
NormalizeStr(s) == Join(SortTokens(Split(Strip(Lower(StripNonAlpha(s))))))

(* ------------------------------ numbers ------------------------------- *)

Abs(n) == IF n < 0 THEN -n ELSE n
Sign(n) == IF n < 0 THEN -1 ELSE IF n > 0 THEN 1 ELSE 0
RECURSIVE GCD(_, _)
GCD(a, b) == IF b = 0 THEN a ELSE GCD(b, a % b)

\* the rational n/d in lowest terms; d = 0 gives NaN (0/0) or an infinity
R(n, d) ==
    IF d = 0 THEN <<Sign(n), 0>>
    ELSE LET g == GCD(Abs(n), Abs(d))
             s == IF d < 0 THEN -1 ELSE 1
         IN  <<(s * n) \div g, (s * d) \div g>>
Whole(n) == <<n, 1>>
NaN == <<0, 0>>
IsNaN(a) == a = NaN
IsInf(a) == a[2] = 0 /\ a[1] # 0
IsFinite(a) == a[2] # 0

FNeg(a) == <<-a[1], a[2]>>
FAdd(a, b) ==
    IF IsNaN(a) \/ IsNaN(b) THEN NaN
    ELSE IF IsInf(a) THEN (IF IsInf(b) /\ b # a THEN NaN ELSE a)
    ELSE IF IsInf(b) THEN b
    ELSE LET g == GCD(a[2], b[2])
         IN  R(a[1] * (b[2] \div g) + b[1] * (a[2] \div g), (a[2] \div g) * b[2])
FSub(a, b) == FAdd(a, FNeg(b))
FMul(a, b) ==
    IF IsNaN(a) \/ IsNaN(b) THEN NaN
    ELSE IF IsInf(a) \/ IsInf(b) THEN <<Sign(a[1]) * Sign(b[1]), 0>>
    ELSE LET g == GCD(Abs(a[1]), b[2])
             h == GCD(Abs(b[1]), a[2])
         IN  R((a[1] \div g) * (b[1] \div h), (a[2] \div h) * (b[2] \div g))
\* true division of floats in numpy: x/0 is NaN for x = 0 and an infinity otherwise
FDiv(a, b) ==
    IF IsNaN(a) \/ IsNaN(b) THEN NaN
    ELSE IF IsInf(b) THEN (IF IsInf(a) THEN NaN ELSE Whole(0))
    ELSE IF IsInf(a) THEN <<a[1] * (IF b[1] < 0 THEN -1 ELSE 1), 0>>
    ELSE IF b[1] = 0 THEN <<Sign(a[1]), 0>>
    ELSE LET g == GCD(Abs(a[1]), Abs(b[1]))
             h == GCD(a[2], b[2])
         IN  R((a[1] \div g) * (b[2] \div h), (a[2] \div h) * (b[1] \div g))
\* comparisons with NaN are False
FLt(a, b) == ~IsNaN(a) /\ ~IsNaN(b) /\ a # b /\
             (IF IsInf(a) \/ IsInf(b)
              THEN (a = <<-1, 0>> \/ b = <<1, 0>>)
              ELSE LET g == GCD(a[2], b[2])
                   IN  a[1] * (b[2] \div g) < b[1] * (a[2] \div g))
FGt(a, b) == FLt(b, a)
FLe(a, b) == ~IsNaN(a) /\ ~IsNaN(b) /\ (a = b \/ FLt(a, b))
FGe(a, b) == FLe(b, a)

(* ------------------------------ difflib ------------------------------- *)
(* SequenceMatcher(a = candidate, b = word) on strings shorter than 200    *)
(* characters, where autojunk marks nothing; positions are 0-based and     *)
(* half-open as in difflib.                                                *)

Min(x, y) == IF x < y THEN x ELSE y

\* the blocks a[i:i+k] == b[j:j+k] within a[alo:ahi], b[blo:bhi]
MatchingBlocks(a, b, alo, ahi, blo, bhi) ==
    {m \in (alo..(ahi - 1)) \X (blo..(bhi - 1)) \X (1..Min(ahi - alo, bhi - blo)) :
        /\ m[1] + m[3] <= ahi
        /\ m[2] + m[3] <= bhi
        /\ \A t \in 1..m[3] : a[m[1] + t] = b[m[2] + t]}

\* find_longest_match: the longest block, of those the earliest in a, of those
\* the earliest in b; (alo, blo, 0) when nothing matches
FindLongestMatch(a, b, alo, ahi, blo, bhi) ==
    LET ms == MatchingBlocks(a, b, alo, ahi, blo, bhi)
    IN  IF ms = {} THEN <<alo, blo, 0>>
        ELSE CHOOSE m \in ms : \A o \in ms :
                \/ o[3] < m[3]
                \/ (o[3] = m[3] /\ m[1] < o[1])
                \/ (o[3] = m[3] /\ m[1] = o[1] /\ m[2] <= o[2])

\* the sum of the sizes get_matching_blocks returns
RECURSIVE MatchCount(_, _, _, _, _, _)
MatchCount(a, b, alo, ahi, blo, bhi) ==
    IF alo >= ahi \/ blo >= bhi THEN 0
    ELSE LET m == FindLongestMatch(a, b, alo, ahi, blo, bhi)
         IN  IF m[3] = 0 THEN 0
             ELSE m[3] + MatchCount(a, b, alo, m[1], blo, m[2])
                       + MatchCount(a, b, m[1] + m[3], ahi, m[2] + m[3], bhi)

\* _calculate_ratio
CalculateRatio(matches, length) ==
    IF length # 0 THEN R(2 * matches, length) ELSE Whole(1)

\* SequenceMatcher.ratio
Ratio(a, b) == CalculateRatio(MatchCount(a, b, 0, Len(a), 0, Len(b)), Len(a) + Len(b))

Occurrences(s, c) == Cardinality({i \in 1..Len(s) : s[i] = c})
RECURSIVE SumOver(_, _)
SumOver(S, f) ==
    IF S = {} THEN 0
    ELSE LET x == CHOOSE y \in S : TRUE IN f[x] + SumOver(S \ {x}, f)

\* SequenceMatcher.quick_ratio: the multiset intersection of the characters
QuickRatio(a, b) ==
    LET chars == {a[i] : i \in 1..Len(a)}
        common == [c \in chars |-> Min(Occurrences(a, c), Occurrences(b, c))]
    IN  CalculateRatio(SumOver(chars, common), Len(a) + Len(b))

\* SequenceMatcher.real_quick_ratio
RealQuickRatio(a, b) == CalculateRatio(Min(Len(a), Len(b)), Len(a) + Len(b))

\* the cutoff main passes to get_close_matches
Cutoff == R(4, 5)

\* the (score, x) pairs get_close_matches collects, in the order of possibilities
RECURSIVE CloseScores(_, _)
CloseScores(word, possibilities) ==
    IF possibilities = <<>> THEN <<>>
    ELSE LET x == Head(possibilities)
             ratio == Ratio(x, word)
             rest == CloseScores(word, Tail(possibilities))
         IN  IF /\ FGe(RealQuickRatio(x, word), Cutoff)
                /\ FGe(QuickRatio(x, word), Cutoff)
                /\ FGe(ratio, Cutoff)
             THEN <<(<<ratio, x>>)>> \o rest
             ELSE rest

\* Python's order on (score, x) tuples
PairLess(p, q) == FLt(p[1], q[1]) \/ (p[1] = q[1] /\ StrLess(p[2], q[2]))

\* a selection by score alone: the first pair holding the best score
NLargestFirstSeen(result) ==
    IF result = <<>> THEN <<>>
    ELSE LET i == CHOOSE k \in 1..Len(result) :
                    /\ \A j \in 1..Len(result) : ~FLt(result[k][1], result[j][1])
                    /\ \A j \in 1..(k - 1) : result[j][1] # result[k][1]
         IN  <<result[i]>>

\* heapq.nlargest(1, result): max(result), the first of the greatest tuples
NLargest(result) ==
    IF result = <<>> THEN <<>>
    ELSE LET i == CHOOSE k \in 1..Len(result) :
                    /\ \A j \in 1..Len(result) : ~PairLess(result[k], result[j])
                    /\ \A j \in 1..(k - 1) : PairLess(result[j], result[k])
         IN  <<result[i]>>

\* difflib.get_close_matches(word, possibilities, n=1, cutoff=0.8)
GetCloseMatches(word, possibilities) ==
    LET best == NLargest(CloseScores(word, possibilities))
    IN  [i \in 1..Len(best) |-> best[i][2]]

(* ------------------------------ values -------------------------------- *)
(* A cell of a table: a string, a number or None.                          *)

Str(s) == [k |-> "s", s |-> s, q |-> NaN]
Num(q) == [k |-> "n", s |-> <<>>, q |-> q]
None == [k |-> "none", s |-> <<>>, q |-> NaN]

RECURSIVE Digits(_)
Digits(n) == IF n < 10 THEN <<48 + n>> ELSE Digits(n \div 10) \o <<48 + (n % 10)>>
RECURSIVE FracDigits(_, _)
FracDigits(n, d) ==
    IF n = 0 THEN <<>> ELSE <<48 + ((10 * n) \div d)>> \o FracDigits((10 * n) % d, d)

\* str(value): a string is itself; a whole number (an int64 column) is its
\* digits; a float with a terminating expansion is that expansion
StrOf(cell) ==
    IF cell.k = "s" THEN cell.s
    ELSE IF cell.k = "none" THEN <<78, 111, 110, 101>>   \* "None"
    ELSE IF IsNaN(cell.q) THEN <<110, 97, 110>>   \* "nan"
    ELSE IF IsInf(cell.q) THEN (IF cell.q[1] < 0 THEN <<45>> ELSE <<>>) \o <<105, 110, 102>>   \* "-", "inf"
    ELSE (IF cell.q[1] < 0 THEN <<45>> ELSE <<>>)   \* "-"
         \o Digits(Abs(cell.q[1]) \div cell.q[2])
         \o (IF cell.q[2] = 1 THEN <<>>
             ELSE <<46>> \o FracDigits(Abs(cell.q[1]) % cell.q[2], cell.q[2]))   \* "."

normalize_name(cell) == Str(NormalizeStr(StrOf(cell)))

(* ----------------------------- DataFrame ------------------------------ *)
(* [cols: the labels in order, rows: the rows, each a sequence of cells    *)
(* aligned with cols].  Labels may repeat after a rename.                  *)

DataFrame(cols, rows) == [cols |-> cols, rows |-> rows]
NRows(df) == Len(df.rows)
RowIds(df) == 1..Len(df.rows)
HasCol(df, label) == \E p \in 1..Len(df.cols) : df.cols[p] = label
\* the positions of the columns a list of labels selects, in the list's order
RECURSIVE Positions(_, _)
Positions(df, labels) ==
    IF labels = <<>> THEN <<>>
    ELSE SelectSeq([p \in 1..Len(df.cols) |-> p], LAMBDA p : df.cols[p] = Head(labels))
         \o Positions(df, Tail(labels))
\* df[label], for a label that names one column
Series(df, label) ==
    LET p == CHOOSE q \in 1..Len(df.cols) : df.cols[q] = label
    IN  [r \in RowIds(df) |-> df.rows[r][p]]
\* df[labels]
SelectCols(df, labels) ==
    LET ps == Positions(df, labels)
    IN  DataFrame([i \in 1..Len(ps) |-> df.cols[ps[i]]],
                  [r \in RowIds(df) |-> [i \in 1..Len(ps) |-> df.rows[r][ps[i]]]])
\* df[label] = values: the column replaced, or appended when new
SetCol(df, label, values) ==
    IF HasCol(df, label)
    THEN DataFrame(df.cols,
                   [r \in RowIds(df) |->
                       [p \in 1..Len(df.cols) |->
                           IF df.cols[p] = label THEN values[r] ELSE df.rows[r][p]]])
    ELSE DataFrame(Append(df.cols, label),
                   [r \in RowIds(df) |-> Append(df.rows[r], values[r])])
\* df.rename(columns = {old: new})
RenameOne(df, old, new) ==
    DataFrame([p \in 1..Len(df.cols) |-> IF df.cols[p] = old THEN new ELSE df.cols[p]],
              df.rows)
\* df.drop(columns = labels, errors = 'ignore')
DropCols(df, labels) ==
    LET keep == SelectSeq([p \in 1..Len(df.cols) |-> p], LAMBDA p : df.cols[p] \notin labels)
    IN  DataFrame([i \in 1..Len(keep) |-> df.cols[keep[i]]],
                  [r \in RowIds(df) |-> [i \in 1..Len(keep) |-> df.rows[r][keep[i]]]])
\* df[mask]
FilterRows(df, mask) ==
    LET keep == SelectSeq([r \in RowIds(df) |-> r], LAMBDA r : mask[r])
    IN  DataFrame(df.cols, [i \in 1..Len(keep) |-> df.rows[keep[i]]])

\* the numbers of a sequence of cells
Floats(cells) == [i \in 1..Len(cells) |-> cells[i].q]
NumCells(qs) == [i \in 1..Len(qs) |-> Num(qs[i])]
NotNaN(qs) == SelectSeq(qs, LAMBDA q : ~IsNaN(q))

\* Series.min / max / sum / mean, which skip NaN; min and max of nothing are NaN
RECURSIVE SeqMin(_)
SeqMin(qs) ==
    IF Len(qs) = 1 THEN qs[1]
    ELSE LET m == SeqMin(Tail(qs)) IN IF FLt(qs[1], m) THEN qs[1] ELSE m
RECURSIVE SeqMax(_)
SeqMax(qs) ==
    IF Len(qs) = 1 THEN qs[1]
    ELSE LET m == SeqMax(Tail(qs)) IN IF FGt(qs[1], m) THEN qs[1] ELSE m
SeriesMin(qs) == IF NotNaN(qs) = <<>> THEN NaN ELSE SeqMin(NotNaN(qs))
SeriesMax(qs) == IF NotNaN(qs) = <<>> THEN NaN ELSE SeqMax(NotNaN(qs))
RECURSIVE SeqSum(_)
SeqSum(qs) == IF qs = <<>> THEN Whole(0) ELSE FAdd(qs[1], SeqSum(Tail(qs)))
SeriesSum(qs) == SeqSum(NotNaN(qs))
SeriesMean(qs) ==
    IF NotNaN(qs) = <<>> THEN NaN
    ELSE FDiv(SeqSum(NotNaN(qs)), Whole(Len(NotNaN(qs))))

\* the values in ascending order
RECURSIVE InsertFloat(_, _)
InsertFloat(q, sorted) ==
    IF sorted = <<>> THEN <<q>>
    ELSE IF FLt(q, Head(sorted)) THEN <<q>> \o sorted
    ELSE <<Head(sorted)>> \o InsertFloat(q, Tail(sorted))
RECURSIVE SortFloats(_)
SortFloats(qs) ==
    IF qs = <<>> THEN <<>> ELSE InsertFloat(Head(qs), SortFloats(Tail(qs)))

\* Series.quantile(q) with q = qn/qd, linear interpolation between the order
\* statistics around position q * (n - 1); NaN of no values
Quantile(qs, qn, qd) ==
    LET v == SortFloats(NotNaN(qs))
        n == Len(v)
        lo == (qn * (n - 1)) \div qd
        frac == R((qn * (n - 1)) % qd, qd)
    IN  IF n = 0 THEN NaN
        ELSE IF frac = Whole(0) THEN v[lo + 1]
        ELSE FAdd(v[lo + 1], FMul(frac, FSub(v[lo + 2], v[lo + 1])))

(* ------------------------------ labels -------------------------------- *)

ColName == <<78, 97, 109, 101>>   \* "Name"
ColNameNorm == <<78, 97, 109, 101, 95, 110, 111, 114, 109>>   \* "Name_norm"
ColMatched == <<77, 97, 116, 99, 104, 101, 100, 95, 68, 71, 95, 78, 111, 114, 109>>   \* "Matched_DG_Norm"
ColNameNormDg == <<78, 97, 109, 101, 95, 110, 111, 114, 109, 95, 100, 103>>   \* "Name_norm_dg"
SuffixDg == <<95, 100, 103>>   \* "_dg"
ColSalary == <<83, 97, 108, 97, 114, 121>>   \* "Salary"
ColCeiling == <<67, 101, 105, 108, 105, 110, 103>>   \* "Ceiling"
ColProjPts == <<82, 71, 95, 80, 114, 111, 106, 80, 116, 115>>   \* "RG_ProjPts"
ColRGOwn == <<82, 71, 95, 79, 119, 110, 101, 114, 115, 104, 105, 112, 37>>   \* "RG_Ownership%"
ColWin == <<68, 71, 95, 87, 105, 110, 37>>   \* "DG_Win%"
ColTop20 == <<68, 71, 95, 84, 111, 112, 50, 48, 37>>   \* "DG_Top20%"
ColTop10 == <<68, 71, 95, 84, 111, 112, 49, 48, 37>>   \* "DG_Top10%"
ColTop5 == <<68, 71, 95, 84, 111, 112, 53, 37>>   \* "DG_Top5%"
ColMakeCut == <<68, 71, 95, 77, 97, 107, 101, 67, 117, 116, 37>>   \* "DG_MakeCut%"
ColRawBase == <<82, 97, 119, 66, 97, 115, 101, 79, 119, 110, 37>>   \* "RawBaseOwn%"
ColComposite == <<68, 71, 95, 67, 111, 109, 112, 111, 115, 105, 116, 101>>   \* "DG_Composite"
ColRawDG == <<82, 97, 119, 68, 71, 79, 119, 110, 37>>   \* "RawDGOwn%"
ColPreElim == <<80, 114, 101, 69, 108, 105, 109, 79, 119, 110, 37>>   \* "PreElimOwn%"
ColFinal == <<70, 105, 110, 97, 108, 79, 119, 110, 37>>   \* "FinalOwn%"
ColGTO == <<71, 84, 79, 95, 79, 119, 110, 101, 114, 115, 104, 105, 112, 37>>   \* "GTO_Ownership%"
ColProjected == <<80, 114, 111, 106, 101, 99, 116, 101, 100, 95, 79, 119, 110, 101, 114, 115, 104, 105, 112, 37>>   \* "Projected_Ownership%"

(* -------------------------- schema resolution ------------------------- *)

\* the headers find_name_column accepts
NameHeaders == {<<110, 97, 109, 101>>, <<103, 111, 108, 102, 101, 114>>, <<112, 108, 97, 121, 101, 114>>, <<112, 108, 97, 121, 101, 114, 32, 110, 97, 109, 101>>}   \* "name", "golfer", "player", "player name"

\* a resolution that falls back to the last column
find_name_column_last(df) ==
    LET candidates == SelectSeq(df.cols, LAMBDA col : Lower(col) \in NameHeaders)
    IN  IF candidates # <<>> THEN candidates[1] ELSE df.cols[Len(df.cols)]
\* find_name_column: the first accepted header, else the first column
find_name_column(df) ==
    LET candidates == SelectSeq(df.cols, LAMBDA col : Lower(col) \in NameHeaders)
    IN  IF candidates # <<>> THEN candidates[1] ELSE df.cols[1]

\* \b at position p of s: between s[p-1] and s[p], one a word character and
\* the other not (the ends of the string count as not)
WordAt(s, p) == p >= 1 /\ p <= Len(s) /\ IsWord(s[p])
Boundary(s, p) == WordAt(s, p - 1) # WordAt(s, p)
\* re.search(r"\b(w1|w2|...)\b", s)
SearchWords(s, words) ==
    \E w \in words : \E i \in 1..(Len(s) - Len(w) + 1) :
        /\ SubSeq(s, i, i + Len(w) - 1) = w
        /\ Boundary(s, i)
        /\ Boundary(s, i + Len(w))
\* proj[_ ]?x
ProjWords(x) == {<<112, 114, 111, 106>> \o sep \o x : sep \in {<<>>, <<95>>, <<32>>}}   \* "proj", "_", " "
\* (fpts|proj[_ ]?pt)s?
FptsWords == LET alt == {<<102, 112, 116, 115>>} \cup ProjWords(<<112, 116>>)   \* "fpts", "pt"
             IN  alt \cup {w \o <<115>> : w \in alt}   \* "s"
\* (proj[_ ]?own|ownership)
OwnWords == ProjWords(<<111, 119, 110>>) \cup {<<111, 119, 110, 101, 114, 115, 104, 105, 112>>}   \* "own", "ownership"

\* the entry detect_and_rename_columns puts in rename_map for col: a sequence
\* holding the new label, or nothing
RenameTarget(col) ==
    LET col_lc == Lower(col)
    IN  IF col_lc = <<115, 97, 108, 97, 114, 121>> THEN <<ColSalary>>   \* "salary"
        ELSE IF Contains(col_lc, <<99, 101, 105, 108>>) THEN <<ColCeiling>>   \* "ceil"
        ELSE IF SearchWords(col_lc, FptsWords) THEN <<ColProjPts>>
        ELSE IF SearchWords(col_lc, OwnWords) THEN <<ColRGOwn>>
        ELSE IF col_lc \in {<<119, 105, 110>>, <<119, 105, 110, 37>>} THEN <<ColWin>>   \* "win", "win%"
        ELSE IF Contains(col_lc, <<116, 111, 112>>) /\ Contains(col_lc, <<50, 48>>) THEN <<ColTop20>>   \* "top", "20"
        ELSE IF Contains(col_lc, <<116, 111, 112>>) /\ Contains(col_lc, <<49, 48>>) THEN <<ColTop10>>   \* "top", "10"
        ELSE IF Contains(col_lc, <<116, 111, 112>>) /\ Contains(col_lc, <<53>>) THEN <<ColTop5>>   \* "top", "5"
        ELSE IF Contains(col_lc, <<109, 97, 107, 101>>) /\ Contains(col_lc, <<99, 117, 116>>) THEN <<ColMakeCut>>   \* "make", "cut"
        ELSE <<>>

detect_and_rename_columns(df) ==
    DataFrame([p \in 1..Len(df.cols) |->
                  IF RenameTarget(df.cols[p]) # <<>>
                  THEN RenameTarget(df.cols[p])[1] ELSE df.cols[p]],
              df.rows)

\* the columns main requires after the renaming, in the order it checks them
RequiredRG == <<ColSalary, ColCeiling, ColProjPts, ColRGOwn>>
RequiredDG == <<ColWin, ColTop20, ColTop10, ColTop5, ColMakeCut>>
\* the first required column that is missing, as a sequence of at most one
FirstMissing(df, required) ==
    LET missing == SelectSeq(required, LAMBDA col : ~HasCol(df, col))
    IN  IF missing = <<>> THEN <<>> ELSE <<missing[1]>>

(* ------------------------------- merge -------------------------------- *)

\* the rows of a frame in the order an inner merge visits them: the left
\* order, or (pandas before 2.2) grouped by key in the order the keys appear
RECURSIVE GroupedFrom(_, _)
GroupedFrom(keys, r) ==
    IF r > Len(keys) THEN <<>>
    ELSE (IF \E q \in 1..(r - 1) : keys[q] = keys[r] THEN <<>>
          ELSE SelectSeq([i \in 1..Len(keys) |-> i], LAMBDA i : keys[i] = keys[r]))
         \o GroupedFrom(keys, r + 1)
LeftVisit(keys, grouped) ==
    IF grouped THEN GroupedFrom(keys, 1) ELSE [i \in 1..Len(keys) |-> i]

\* the (left row, right row) pairs of an inner join on lkeys = rkeys
RECURSIVE JoinPairs(_, _, _)
JoinPairs(visit, lkeys, rkeys) ==
    IF visit = <<>> THEN <<>>
    ELSE LET l == Head(visit)
             rs == SelectSeq([i \in 1..Len(rkeys) |-> i], LAMBDA i : rkeys[i] = lkeys[l])
         IN  [i \in 1..Len(rs) |-> <<l, rs[i]>>] \o JoinPairs(Tail(visit), lkeys, rkeys)

\* pd.merge(left, right, left_on=, right_on=, suffixes=("", suffix)), how='inner'
Merge(left, right, left_on, right_on, suffix, grouped) ==
    LET lkeys == Series(left, left_on)
        rkeys == Series(right, right_on)
        pairs == JoinPairs(LeftVisit(lkeys, grouped), lkeys, rkeys)
        rcols == [p \in 1..Len(right.cols) |->
                    IF HasCol(left, right.cols[p])
                    THEN right.cols[p] \o suffix ELSE right.cols[p]]
    IN  DataFrame(left.cols \o rcols,
                  [i \in 1..Len(pairs) |->
                      left.rows[pairs[i][1]] \o right.rows[pairs[i][2]]])

\* rg_df['Name_norm'] = rg_df['Name'].apply(normalize_name)
WithNameNorm(frame) ==
    SetCol(frame, ColNameNorm,
           [r \in RowIds(frame) |-> normalize_name(Series(frame, ColName)[r])])

\* the dict main builds: each original name to its closest normalised name
\* in table B, or None; a name met again overwrites its entry
Mapping(rg, dg_norms) ==
    LET names == Series(rg, ColName)
        norms == Series(rg, ColNameNorm)
        last(orig) == CHOOSE r \in RowIds(rg) :
                          names[r] = orig /\ \A q \in RowIds(rg) : names[q] = orig => q <= r
        close(r) == GetCloseMatches(norms[r].s, dg_norms)
    IN  [orig \in {names[r] : r \in RowIds(rg)} |->
            IF close(last(orig)) # <<>> THEN Str(close(last(orig))[1]) ELSE None]

\* rg_df['Matched_DG_Norm'] = rg_df['Name'].map(mapping)
WithMatched(rg, dg) ==
    LET dg_norms == [r \in RowIds(dg) |-> Series(dg, ColNameNorm)[r].s]
        mapping == Mapping(rg, dg_norms)
    IN  SetCol(rg, ColMatched, [r \in RowIds(rg) |-> mapping[Series(rg, ColName)[r]]])

(* --------------------------- ownership stages ------------------------- *)

\* 0.5 + 19.5 * ((x - lo) / (hi - lo)), the map of Steps 3 and 4
MinMaxMapUnscaled(x, lo, hi) == FDiv(FSub(x, lo), FSub(hi, lo))
MinMaxMap(x, lo, hi) ==
    FAdd(R(1, 2), FMul(R(39, 2), FDiv(FSub(x, lo), FSub(hi, lo))))

\* Step 3: df['RawBaseOwn%']
RawBaseOwn(frame) ==
    LET salary == Floats(Series(frame, ColSalary))
        s_min == SeriesMin(salary)
        s_max == SeriesMax(salary)
    IN  [r \in RowIds(frame) |-> MinMaxMap(salary[r], s_min, s_max)]

\* Step 4: df[dg_fields].mean(axis=1)
dg_fields == <<ColMakeCut, ColTop20, ColTop10, ColTop5, ColWin>>
DGComposite(frame) ==
    LET fields == SelectCols(frame, dg_fields)
    IN  [r \in RowIds(frame) |-> SeriesMean(Floats(fields.rows[r]))]
\* Step 4: df['RawDGOwn%']
RawDGOwn(frame) ==
    LET composite == Floats(Series(frame, ColComposite))
        dg_min == SeriesMin(composite)
        dg_max == SeriesMax(composite)
    IN  [r \in RowIds(frame) |-> MinMaxMap(composite[r], dg_min, dg_max)]

\* Step 5: df['PreElimOwn%']
PreElimOwn(frame) ==
    LET base == Floats(Series(frame, ColRawBase))
        odds == Floats(Series(frame, ColRawDG))
    IN  [r \in RowIds(frame) |-> FMul(R(1, 2), FAdd(base[r], odds[r]))]

\* Step 6: threshold = df['PreElimOwn%'].quantile(0.2)
Threshold(frame) == Quantile(Floats(Series(frame, ColPreElim)), 1, 5)
\* a mask that keeps the rows at the threshold too
SurvivorsAtOrAbove(frame) ==
    LET pre == Floats(Series(frame, ColPreElim))
        threshold == Threshold(frame)
    IN  [r \in RowIds(frame) |-> FGe(pre[r], threshold)]
\* Step 6: survivors = df['PreElimOwn%'] > threshold
Survivors(frame) ==
    LET pre == Floats(Series(frame, ColPreElim))
        threshold == Threshold(frame)
    IN  [r \in RowIds(frame) |-> FGt(pre[r], threshold)]
\* a rescale that leaves the mapped values as they are
RescaleNone(mapped, total) == mapped
\* mapped * (600.0 / mapped.sum())
Rescale(mapped, total) ==
    [i \in 1..Len(mapped) |-> FMul(mapped[i], FDiv(Whole(600), total))]
\* Step 6: df['FinalOwn%'], 0.0 but on the survivors
FinalOwn(frame) ==
    LET pre == Floats(Series(frame, ColPreElim))
        survivors == Survivors(frame)
        ids == SelectSeq([r \in RowIds(frame) |-> r], LAMBDA r : survivors[r])
        kept == [i \in 1..Len(ids) |-> pre[ids[i]]]
        p_min == SeriesMin(kept)
        p_max == SeriesMax(kept)
        norm_pre == [i \in 1..Len(kept) |-> FDiv(FSub(kept[i], p_min), FSub(p_max, p_min))]
        mapped == [i \in 1..Len(kept) |-> FAdd(R(7, 10), FMul(R(43, 2), norm_pre[i]))]
        scaled == Rescale(mapped, SeriesSum(mapped))
        at(r) == CHOOSE i \in 1..Len(ids) : ids[i] = r
    IN  [r \in RowIds(frame) |-> IF survivors[r] THEN scaled[at(r)] ELSE Whole(0)]

\* Step 7: df_score = df[df['FinalOwn%'] > 0], FinalOwn% renamed
ScoreRows(frame) ==
    LET final == Floats(Series(frame, ColFinal))
    IN  RenameOne(FilterRows(frame, [r \in RowIds(frame) |-> FGt(final[r], Whole(0))]),
                  ColFinal, ColGTO)
\* df.set_index('Name')['RG_Ownership%'].loc[names].values: for each name
\* asked, the values of every row of df indexed by that name
RECURSIVE LookupByName(_, _)
LookupByName(frame, names) ==
    IF names = <<>> THEN <<>>
    ELSE LET index == Series(frame, ColName)
             own == Series(frame, ColRGOwn)
             hits == SelectSeq([r \in RowIds(frame) |-> r], LAMBDA r : index[r] = Head(names))
         IN  [i \in 1..Len(hits) |-> own[hits[i]]] \o LookupByName(frame, Tail(names))
final_cols == <<ColName, ColSalary, ColCeiling, ColProjPts, ColComposite,
                ColProjected, ColGTO>>

(* --------------------------- uploaded files --------------------------- *)
(* The tables drawn for the two uploads: rows without repetition from a    *)
(* few Rotogrinders and DataGolf records, a merged raw file holding both   *)
(* sets of columns, and the same tables with one column left out.          *)

RGHeaders == <<<<78, 97, 109, 101>>, <<83, 97, 108, 97, 114, 121>>, <<67, 101, 105, 108, 105, 110, 103>>, <<70, 80, 84, 83>>, <<80, 114, 111, 106, 32, 79, 119, 110>>>>   \* "Name", "Salary", "Ceiling", "FPTS", "Proj Own"
DGHeaders == <<<<112, 108, 97, 121, 101, 114, 95, 110, 97, 109, 101>>, <<109, 97, 107, 101, 95, 99, 117, 116>>, <<116, 111, 112, 95, 50, 48>>, <<116, 111, 112, 95, 49, 48>>, <<116, 111, 112, 95, 53>>, <<119, 105, 110>>>>   \* "player_name", "make_cut", "top_20", "top_10", "top_5", "win"

RGRow(name, salary, ceiling, fpts, own) ==
    <<Str(name), Num(Whole(salary)), Num(Whole(ceiling)), Num(Whole(fpts)), Num(Whole(own))>>
\* the odds are given in hundredths
DGOdds(cut, t20, t10, t5, win) ==
    <<Num(R(cut, 100)), Num(R(t20, 100)), Num(R(t10, 100)), Num(R(t5, 100)), Num(R(win, 100))>>
DGRow(name, cut, t20, t10, t5, win) == <<Str(name)>> \o DGOdds(cut, t20, t10, t5, win)

RGRecords == <<RGRow(<<74, 111, 32, 82, 97>>, 10000, 90, 75, 15),   \* "Jo Ra"
               RGRow(<<74, 111, 32, 82, 97, 98>>, 9000, 85, 70, 12),   \* "Jo Rab"
               RGRow(<<74, 111, 32, 82, 97, 98, 121>>, 8000, 80, 65, 9),   \* "Jo Raby"
               RGRow(<<74, 111, 32, 82, 97>>, 7000, 70, 60, 5)>>   \* "Jo Ra"
DGRecords == <<DGRow(<<82, 97, 44, 32, 74, 111>>, 90, 60, 38, 20, 12),   \* "Ra, Jo"
               DGRow(<<74, 111, 32, 82, 97, 98>>, 92, 64, 44, 24, 16),   \* "Jo Rab"
               DGRow(<<74, 111, 32, 82, 97, 99>>, 95, 70, 47, 28, 20),   \* "Jo Rac"
               DGRow(<<74, 111, 32, 82, 97>>, 88, 62, 36, 22, 12)>>   \* "Jo Ra"
\* a merged raw file's records: a Rotogrinders record and the odds of the
\* DataGolf record at the same place
MergedRecords == [i \in 1..Len(RGRecords) |-> RGRecords[i] \o Tail(DGRecords[i])]

\* the sequences of at most n distinct members of records
Tables(records, n) ==
    UNION {{[i \in 1..k |-> records[f[i]]] :
               f \in {g \in [1..k -> 1..Len(records)] :
                         \A i, j \in 1..k : i # j => g[i] # g[j]}} :
           k \in 0..n}

RGFiles == {DataFrame(RGHeaders, rows) : rows \in Tables(RGRecords, MaxRows)}
DGFiles == {DataFrame(DGHeaders, rows) : rows \in Tables(DGRecords, MaxRows)}
MergedFiles ==
    {DataFrame(RGHeaders \o Tail(DGHeaders), rows) : rows \in Tables(MergedRecords, MaxRows)}

\* a file with its column at position p left out
WithoutColumn(file, p) ==
    LET keep == SelectSeq([q \in 1..Len(file.cols) |-> q], LAMBDA q : q # p)
    IN  DataFrame([i \in 1..Len(keep) |-> file.cols[keep[i]]],
                  [r \in RowIds(file) |-> [i \in 1..Len(keep) |-> file.rows[r][keep[i]]]])
FullRG == DataFrame(RGHeaders, SubSeq(RGRecords, 1, 3))
FullDG == DataFrame(DGHeaders, SubSeq(DGRecords, 1, 3))

\* (rg_file, dg_file): each a sequence holding the uploaded table, or empty
\* when nothing was uploaded
Uploads ==
    {<<(<<>>), (<<>>)>>}
    \cup {<<(<<rg>>), (<<dg>>)>> : rg \in RGFiles, dg \in DGFiles}
    \cup {<<(<<m>>), (<<>>)>> : m \in MergedFiles}
    \cup {<<(<<>>), (<<m>>)>> : m \in MergedFiles}
    \cup {<<(<<WithoutColumn(FullRG, p)>>), (<<FullDG>>)>> : p \in 1..Len(RGHeaders)}
    \cup {<<(<<FullRG>>), (<<WithoutColumn(FullDG, p)>>)>> : p \in 1..Len(DGHeaders)}

(* ------------------------------- state -------------------------------- *)

VARIABLES
    pc,         \* where main() stands
    rg_file,    \* the Rotogrinders upload
    dg_file,    \* the DataGolf upload
    rg_df,      \* main's rg_df
    dg_df,      \* main's dg_df
    merged,     \* main's merged
    df,         \* main's df
    df_score,   \* main's df_score
    downloads,  \* the tables offered through st.download_button, in order
    message     \* the last st.info / st.success / st.error

vars == <<pc, rg_file, dg_file, rg_df, dg_df, merged, df, df_score, downloads, message>>

Unset == DataFrame(<<>>, <<>>)
Msg(kind, col) == [kind |-> kind, col |-> col]

Init ==
    /\ pc = "uploaded"
    /\ \E upload \in Uploads : rg_file = upload[1] /\ dg_file = upload[2]
    /\ rg_df = Unset
    /\ dg_df = Unset
    /\ merged = Unset
    /\ df = Unset
    /\ df_score = Unset
    /\ downloads = <<>>
    /\ message = Msg("none", <<>>)

\* lines 67-69: neither file uploaded
NothingUploaded ==
    /\ pc = "uploaded"
    /\ rg_file = <<>> /\ dg_file = <<>>
    /\ message' = Msg("info", <<>>)
    /\ pc' = "returned"
    /\ UNCHANGED <<rg_file, dg_file, rg_df, dg_df, merged, df, df_score, downloads>>

\* lines 71-86: load, copy a lone upload to both sides, unify the name columns
LoadData ==
    /\ pc = "uploaded"
    /\ ~(rg_file = <<>> /\ dg_file = <<>>)
    /\ LET rg0 == rg_file
           dg0 == dg_file
           dg1 == IF rg0 # <<>> /\ dg0 = <<>> THEN rg0 ELSE dg0
           rg1 == IF dg1 # <<>> /\ rg0 = <<>> THEN dg1 ELSE rg0
       IN  /\ rg_df' = RenameOne(rg1[1], find_name_column(rg1[1]), ColName)
           /\ dg_df' = RenameOne(dg1[1], find_name_column(dg1[1]), ColName)
    /\ pc' = "merge"
    /\ UNCHANGED <<rg_file, dg_file, merged, df, df_score, downloads, message>>

\* lines 88-106: the fuzzy merge on normalised names and the Step 2 download
FuzzyMerge ==
    /\ pc = "merge"
    /\ \E grouped \in BOOLEAN :
        LET dg1 == WithNameNorm(dg_df)
            rg1 == WithMatched(WithNameNorm(rg_df), dg1)
            joined == Merge(rg1, dg1, ColMatched, ColNameNorm, SuffixDg, grouped)
        IN  /\ rg_df' = rg1
            /\ dg_df' = dg1
            /\ merged' = DropCols(joined, {ColMatched, ColNameNorm, ColNameNormDg})
    /\ message' = Msg("success", <<>>)
    /\ downloads' = Append(downloads, "GTO_Raw")
    /\ pc' = "verify"
    /\ UNCHANGED <<rg_file, dg_file, df, df_score>>

\* lines 108-115: a required RG column is missing after the renaming
RequiredRGMissing ==
    /\ pc = "verify"
    /\ LET renamed == detect_and_rename_columns(merged)
       IN  /\ FirstMissing(renamed, RequiredRG) # <<>>
           /\ df' = renamed
           /\ message' = Msg("error", FirstMissing(renamed, RequiredRG)[1])
    /\ pc' = "returned"
    /\ UNCHANGED <<rg_file, dg_file, rg_df, dg_df, merged, df_score, downloads>>

\* lines 108-122: a required DG column is missing after the renaming
RequiredDGMissing ==
    /\ pc = "verify"
    /\ LET renamed == detect_and_rename_columns(merged)
       IN  /\ FirstMissing(renamed, RequiredRG) = <<>>
           /\ FirstMissing(renamed, RequiredDG) # <<>>
           /\ df' = renamed
           /\ message' = Msg("error", FirstMissing(renamed, RequiredDG)[1])
    /\ pc' = "returned"
    /\ UNCHANGED <<rg_file, dg_file, rg_df, dg_df, merged, df_score, downloads>>

\* lines 108-122: every required column is there
ColumnsVerified ==
    /\ pc = "verify"
    /\ LET renamed == detect_and_rename_columns(merged)
       IN  /\ FirstMissing(renamed, RequiredRG) = <<>>
           /\ FirstMissing(renamed, RequiredDG) = <<>>
           /\ df' = renamed
    /\ pc' = "step3"
    /\ UNCHANGED <<rg_file, dg_file, rg_df, dg_df, merged, df_score, downloads, message>>

\* lines 124-130: Step 3, salary-driven base ownership
Step3 ==
    /\ pc = "step3"
    /\ df' = SetCol(df, ColRawBase, NumCells(RawBaseOwn(df)))
    /\ downloads' = Append(downloads, "GTO_SalaryOwn")
    /\ pc' = "step4"
    /\ UNCHANGED <<rg_file, dg_file, rg_df, dg_df, merged, df_score, message>>

\* lines 132-140: Step 4, the DG composite and its ownership
Step4 ==
    /\ pc = "step4"
    /\ LET withComposite == SetCol(df, ColComposite, NumCells(DGComposite(df)))
       IN  df' = SetCol(withComposite, ColRawDG, NumCells(RawDGOwn(withComposite)))
    /\ downloads' = Append(downloads, "GTO_DGOwn")
    /\ pc' = "step5"
    /\ UNCHANGED <<rg_file, dg_file, rg_df, dg_df, merged, df_score, message>>

\* lines 142-147: Step 5, the pre-elimination blend
Step5 ==
    /\ pc = "step5"
    /\ df' = SetCol(df, ColPreElim, NumCells(PreElimOwn(df)))
    /\ downloads' = Append(downloads, "GTO_PreElim")
    /\ pc' = "step6"
    /\ UNCHANGED <<rg_file, dg_file, rg_df, dg_df, merged, df_score, message>>

\* lines 149-160: Step 6, elimination and rescaling
Step6 ==
    /\ pc = "step6"
    /\ df' = SetCol(df, ColFinal, NumCells(FinalOwn(df)))
    /\ downloads' = Append(downloads, "GTO_FinalOwn")
    /\ pc' = "step7"
    /\ UNCHANGED <<rg_file, dg_file, rg_df, dg_df, merged, df_score, message>>

\* lines 163-175: Step 7, the scorecard
Step7 ==
    /\ pc = "step7"
    /\ LET score == ScoreRows(df)
           projected == LookupByName(df, Series(score, ColName))
       IN  /\ Len(projected) = NRows(score)
           /\ df_score' = SelectCols(SetCol(score, ColProjected, projected), final_cols)
    /\ downloads' = Append(downloads, "gto_scorecard")
    /\ pc' = "done"
    /\ UNCHANGED <<rg_file, dg_file, rg_df, dg_df, merged, df, message>>

\* lines 163-165: the looked-up values do not fit the scorecard's rows, and
\* the assignment raises ValueError
Step7Raises ==
    /\ pc = "step7"
    /\ LET score == ScoreRows(df)
           projected == LookupByName(df, Series(score, ColName))
       IN  /\ Len(projected) # NRows(score)
           /\ df_score' = score
    /\ message' = Msg("exception", ColProjected)
    /\ pc' = "raised"
    /\ UNCHANGED <<rg_file, dg_file, rg_df, dg_df, merged, df, downloads>>

Next ==
    \/ NothingUploaded
    \/ LoadData
    \/ FuzzyMerge
    \/ RequiredRGMissing
    \/ RequiredDGMissing
    \/ ColumnsVerified
    \/ Step3
    \/ Step4
    \/ Step5
    \/ Step6
    \/ Step7
    \/ Step7Raises

Spec == Init /\ [][Next]_vars

(* ======================= the ownership stages ========================= *)

\* the rows of df in a set of row numbers, as a sequence of numbers
FloatsAt(qs, ids) ==
    LET order == SelectSeq([r \in 1..Len(qs) |-> r], LAMBDA r : r \in ids)
    IN  [i \in 1..Len(order) |-> qs[order[i]]]
\* the rows of df above the 20th-percentile threshold of PreElimOwn%
AboveThreshold ==
    LET pre == Floats(Series(df, ColPreElim))
        threshold == Threshold(df)
    IN  {r \in RowIds(df) : FGt(pre[r], threshold)}
\* the rows of df at or below it
AtOrBelowThreshold ==
    LET pre == Floats(Series(df, ColPreElim))
        threshold == Threshold(df)
    IN  {r \in RowIds(df) : FLe(pre[r], threshold)}
\* at least two survivors, not all of one pre-elimination value
SpreadSurvivors ==
    Cardinality({Floats(Series(df, ColPreElim))[r] : r \in AboveThreshold}) >= 2

\* C1: once Step 6 has run on a table with at least two survivors whose
\* pre-elimination values are not all equal, the final ownership of the
\* survivors sums to exactly 600 and every other row holds exactly 0.
C1_FixedSum ==
    (HasCol(df, ColFinal) /\ SpreadSurvivors) =>
        LET final == Floats(Series(df, ColFinal))
        IN  /\ SeqSum(FloatsAt(final, AboveThreshold)) = Whole(600)
            /\ \A r \in RowIds(df) \ AboveThreshold : final[r] = Whole(0)
\* a finished run with spread survivors and an eliminated row
C1_Witness ==
    /\ pc = "done"
    /\ SpreadSurvivors
    /\ RowIds(df) \ AboveThreshold # {}

\* the scorecard's columns of a row of df, but the two ownership ones
ScoreKey == <<ColName, ColSalary, ColCeiling, ColProjPts, ColComposite>>
KeyOf(frame, r) == SelectCols(frame, ScoreKey).rows[r]

\* C2: once Step 6 has run, every row with FinalOwn% > 0 has PreElimOwn%
\* strictly above the 20th-percentile threshold, and every row at or below
\* the threshold (ties included) has FinalOwn% = 0 and is no row of the
\* final scorecard.
C2_EliminationConsistency ==
    HasCol(df, ColFinal) =>
        LET final == Floats(Series(df, ColFinal))
        IN  /\ \A r \in RowIds(df) : FGt(final[r], Whole(0)) => r \in AboveThreshold
            /\ \A r \in AtOrBelowThreshold : final[r] = Whole(0)
            /\ pc = "done" =>
                  \A r \in AtOrBelowThreshold : \A i \in RowIds(df_score) :
                      KeyOf(df_score, i) # KeyOf(df, r)
\* a finished run in which a row sits exactly at the threshold, beside
\* rows above it that reach the scorecard
C2_Witness ==
    /\ pc = "done"
    /\ \E r \in RowIds(df) : Floats(Series(df, ColPreElim))[r] = Threshold(df)
    /\ NRows(df_score) >= 2

\* whether the numbers of a column differ
NotConstant(qs) == \E i, j \in 1..Len(qs) : qs[i] # qs[j]
\* the min-max map took column src to column dst within [0.5, 20.0], the
\* minimum to 0.5 and the maximum to 20.0
InClosedRange(src, dst) ==
    LET from == Floats(Series(df, src))
        to == Floats(Series(df, dst))
    IN  \A r \in RowIds(df) :
            /\ FGe(to[r], R(1, 2)) /\ FLe(to[r], Whole(20))
            /\ (\A q \in RowIds(df) : FLe(from[r], from[q])) => to[r] = R(1, 2)
            /\ (\A q \in RowIds(df) : FGe(from[r], from[q])) => to[r] = Whole(20)

\* C8: for a Salary column (Step 3) or a DG_Composite column (Step 4) that
\* is not constant, every RawBaseOwn% and RawDGOwn% lies in [0.5, 20.0], the
\* rows holding the column's minimum are mapped to exactly 0.5 and those
\* holding its maximum to exactly 20.0.
C8_MinMaxRange ==
    /\ (HasCol(df, ColRawBase) /\ NotConstant(Floats(Series(df, ColSalary))))
          => InClosedRange(ColSalary, ColRawBase)
    /\ (HasCol(df, ColRawDG) /\ NotConstant(Floats(Series(df, ColComposite))))
          => InClosedRange(ColComposite, ColRawDG)
\* both maps have run on columns that are not constant, over three rows or more
C8_Witness ==
    /\ HasCol(df, ColRawDG)
    /\ NotConstant(Floats(Series(df, ColSalary)))
    /\ NotConstant(Floats(Series(df, ColComposite)))
    /\ NRows(df) >= 3

\* a min-max step of Steps 3, 4 or 6 has run with a zero divisor
DegenerateStep ==
    \/ HasCol(df, ColRawBase) /\ ~NotConstant(Floats(Series(df, ColSalary)))
    \/ HasCol(df, ColRawDG) /\ ~NotConstant(Floats(Series(df, ColComposite)))
    \/ HasCol(df, ColFinal) /\ ~SpreadSurvivors

\* C4: whenever a min-max step would divide by zero (constant salaries,
\* constant composite odds, or fewer than two distinct survivors), the run
\* stops with an error instead of computing NaN ownership and going on.
C4_DegenerateDetected ==
    DegenerateStep =>
        /\ pc = "returned"
        /\ message.kind = "error"
        /\ \A label \in {ColRawBase, ColRawDG, ColPreElim, ColFinal} :
              HasCol(df, label) => \A r \in RowIds(df) : ~IsNaN(Series(df, label)[r].q)

\* C5: a run that has ended in a hard error (a required column missing, or
\* a degenerate min-max step) has offered no table for download.
C5_AtomicAbort ==
    (message.kind = "error" \/ DegenerateStep) => downloads = <<>>

(* ========================= the reconciliation ========================= *)

\* the merge has run
Merged == pc \notin {"uploaded", "merge"} /\ HasCol(rg_df, ColMatched)
\* the rows of merged that carry row r of table A: merged keeps A's columns
\* first, in A's order
JoinedFrom(r) ==
    LET n == Len(rg_df.cols) - 2
    IN  {i \in RowIds(merged) :
            SubSeq(merged.rows[i], 1, n) = SubSeq(rg_df.rows[r], 1, n)}

\* C3: each row of table A contributes at most one row to the joined table,
\* also when rows of table B share a normalised name, and a row of A without
\* a close enough candidate contributes none.
C3_MatchCardinality ==
    Merged =>
        \A r \in RowIds(rg_df) :
            /\ Cardinality(JoinedFrom(r)) <= 1
            /\ Series(rg_df, ColMatched)[r] = None => JoinedFrom(r) = {}

\* the normalised names of table B, in its order
DgNorms == [q \in RowIds(dg_df) |-> Series(dg_df, ColNameNorm)[q].s]
\* the names of table B that share the best score for row r of table A
BestCandidates(r) ==
    LET scores == CloseScores(Series(rg_df, ColNameNorm)[r].s, DgNorms)
    IN  {scores[i][2] : i \in {k \in 1..Len(scores) :
            \A j \in 1..Len(scores) : ~FLt(scores[k][1], scores[j][1])}}
\* the first of them in table B's order
FirstCandidate(r) ==
    DgNorms[CHOOSE q \in RowIds(dg_df) :
                /\ DgNorms[q] \in BestCandidates(r)
                /\ \A o \in 1..(q - 1) : DgNorms[o] \notin BestCandidates(r)]
\* the greatest of them in the order of strings
GreatestCandidate(r) ==
    CHOOSE x \in BestCandidates(r) : \A y \in BestCandidates(r) : ~StrLess(x, y)

\* C7, as claimed: when distinct normalised names of table B share the best
\* score for a row of table A, the one met first in table B is selected.
C7_FirstEncountered ==
    Merged =>
        \A r \in RowIds(rg_df) :
            Cardinality(BestCandidates(r)) >= 2 =>
                Series(rg_df, ColMatched)[r] = Str(FirstCandidate(r))
\* C7, amended: when distinct normalised names of table B share the best
\* score for a row of table A, the greatest of them in the order of strings
\* is selected, wherever it stands in table B.
C7_GreatestString ==
    Merged =>
        \A r \in RowIds(rg_df) :
            Cardinality(BestCandidates(r)) >= 2 =>
                Series(rg_df, ColMatched)[r] = Str(GreatestCandidate(r))
\* a row of A with two best candidates, the first met not the greatest
C7_Witness ==
    /\ Merged
    /\ \E r \in RowIds(rg_df) :
          /\ Cardinality(BestCandidates(r)) >= 2
          /\ FirstCandidate(r) # GreatestCandidate(r)

\* the table each side was loaded from
Uploaded == rg_file # <<>> \/ dg_file # <<>>
RgSource == IF rg_file # <<>> THEN rg_file[1] ELSE dg_file[1]
DgSource == IF dg_file # <<>> THEN dg_file[1] ELSE rg_file[1]
\* no header of the table resolves to the name field
NoNameHeader(file) == \A p \in 1..Len(file.cols) : Lower(file.cols[p]) \notin NameHeaders
\* the frame is the file with its first column taken as Name
FirstColumnAsName(frame, file) ==
    /\ frame.cols = <<ColName>> \o Tail(file.cols)
    /\ frame.rows = file.rows

PositiveRows ==
    LET final == Floats(Series(df, ColFinal))
    IN  SelectSeq([r \in RowIds(df) |-> r], LAMBDA r : FGt(final[r], Whole(0)))

\* C10: Step 7 completes for every joined table, also when two joined rows
\* carry one Name, with one scorecard row per row of final ownership above
\* 0, each holding the projected ownership of its own row.
C10_ProjectedAttached ==
    pc \in {"done", "raised"} =>
        /\ pc = "done"
        /\ NRows(df_score) = Len(PositiveRows)
        /\ \A i \in RowIds(df_score) :
              Series(df_score, ColProjected)[i] = Series(df, ColRGOwn)[PositiveRows[i]]

(* ======================== normalisation alone ========================= *)
(* Runs whose two one-row tables hold a name and a reordering of it.      *)

\* The longest name drawn.
MaxNameLen == 5
\* "a", "B", "," and " "
NameAlphabet == {97, 66, 44, 32}
NameStrings == UNION {[1..k -> NameAlphabet] : k \in 0..MaxNameLen}

\* the tokens of a name without their punctuation, those left empty dropped
BareTokens(x) ==
    SelectSeq([i \in 1..Len(Split(x)) |-> StripNonAlpha(Split(x)[i])], LAMBDA t : t # <<>>)
Permuted(tokens) ==
    {[i \in 1..Len(tokens) |-> tokens[f[i]]] : f \in Permutations(1..Len(tokens))}
\* the names drawn beside x: its tokens in every order, with their
\* punctuation and without
Reorderings(x) ==
    {Join(t) : t \in Permuted(Split(x))} \cup {Join(t) : t \in Permuted(BareTokens(x))}
\* y holds the tokens of x, punctuation aside, in some order
IsReordering(x, y) == BareTokens(y) \in Permuted(BareTokens(x))

InitNorm ==
    /\ pc = "uploaded"
    /\ \E x \in NameStrings : \E y \in Reorderings(x) :
          /\ rg_file = <<DataFrame(RGHeaders, <<RGRow(x, 10000, 90, 75, 15)>>)>>
          /\ dg_file = <<DataFrame(DGHeaders, <<DGRow(y, 90, 60, 38, 20, 12)>>)>>
    /\ rg_df = Unset
    /\ dg_df = Unset
    /\ merged = Unset
    /\ df = Unset
    /\ df_score = Unset
    /\ downloads = <<>>
    /\ message = Msg("none", <<>>)

NextNorm == LoadData \/ FuzzyMerge

SpecNorm == InitNorm /\ [][NextNorm]_vars

\* C9: names that hold the same tokens in another order, with or without
\* punctuation attached to a token, are given the same normalised name.
C9_PermutationInvariant ==
    Merged =>
        \A r \in RowIds(rg_df) : \A q \in RowIds(dg_df) :
            IsReordering(Series(rg_df, ColName)[r].s, Series(dg_df, ColName)[q].s) =>
                Series(rg_df, ColNameNorm)[r] = Series(dg_df, ColNameNorm)[q]
\* two names of two tokens or more, in different orders, one with a comma
C9_Witness ==
    /\ Merged
    /\ \E r \in RowIds(rg_df) : \E q \in RowIds(dg_df) :
          LET x == Series(rg_df, ColName)[r].s
              y == Series(dg_df, ColName)[q].s
          IN  /\ IsReordering(x, y)
              /\ Len(BareTokens(x)) >= 2
              /\ BareTokens(x) # BareTokens(y)
              /\ Contains(x, <<44>>) /\ ~Contains(y, <<44>>)   \* ",", ","

====
